---------------------------- MODULE Spec2Model ----------------------------
(***************************************************************************)
(* Model of the Capstone command relay:                                    *)
(*   src/OpenVLC/TX/tx_send.py   the sender: wraps a message in markers,   *)
(*                               splits it into padded fixed-size packets  *)
(*   src/OpenVLC/RX/rx_relay.py  the receiver: reassembles the packets and *)
(*                               relays the message                        *)
(*   src/eth_bridge_move.py      the bridge: sanitizes a datagram, parses  *)
(*                               the command, publishes a velocity or      *)
(*                               tracks a drive/rotate goal, and replies   *)
(*                                                                         *)
(* Texts are strings; a character is a string of length 1.  All texts are  *)
(* ASCII, so one character is one byte of the UTF-8 encoding.  Numbers of  *)
(* the command grammar are fixed-point integers in thousandths.            *)
(***************************************************************************)
EXTENDS Integers, Sequences, FiniteSets, TLC

VARIABLES
    \* ---- tx_send.py
    PACKET_SIZE,      \* segment size shared by sender and receiver
    user_msg,         \* the message read from input()
    tx_msgs,          \* history: the messages read so far
    packets,          \* the list of packets built for user_msg
    sent_packets,     \* packets of user_msg already handed to sendto
    tx_pc,            \* "input" (waiting for input()), "sending" or "exited"
    wire,             \* datagrams sent to the receiver and not yet received
    \* ---- rx_relay.py
    buffer,           \* the in-progress message text
    inside_message,   \* FALSE: Idle, TRUE: Collecting
    recv_packets,     \* datagrams received so far
    relayed,          \* datagrams sent on send_sock, oldest first
    rx_log,           \* history: one record per datagram received
    \* ---- eth_bridge_move.py
    default_drive_speed,  \* self.default_drive_speed, in thousandths
    default_rot_speed,    \* self.default_rot_speed, in thousandths
    _shutdown,        \* self._shutdown
    sock_open,        \* FALSE once self.sock.close() ran
    loop,             \* _udp_loop: "head" (at the while test), "recv" (in
                      \* recvfrom), "stopped" (returned)
    datagrams,        \* history: one record per datagram received by the bridge
    events,           \* history: the calls of vel_pub.publish, _reply and
                      \* send_goal_async, in the order they were made
    goals,            \* goals handed to send_goal_async, oldest first
    \* ---- strip_wrappers applied repeatedly to one text
    san_x,            \* the text
    san_hist          \* strip_wrappers(x), strip_wrappers(strip_wrappers(x)), ...

txVars == <<PACKET_SIZE, user_msg, tx_msgs, packets, sent_packets, tx_pc, wire>>
rxVars == <<buffer, inside_message, recv_packets, relayed, rx_log>>
paramVars == <<default_drive_speed, default_rot_speed>>
bridgeVars == <<paramVars, _shutdown, sock_open, loop, datagrams, events, goals>>
sanVars == <<san_x, san_hist>>
vars == <<txVars, rxVars, bridgeVars, sanVars>>

Min(S) == CHOOSE x \in S : \A y \in S : x <= y

(***************************************************************************)
(* Python's str operations, as the three programs use them.                *)
(***************************************************************************)
\* Characters str.strip() removes and the regex class \s matches.
WS == {" ", "\t", "\n", "\r", "\f"}

UPPER == "ABCDEFGHIJKLMNOPQRSTUVWXYZ"
LOWER == "abcdefghijklmnopqrstuvwxyz"

\* s[i-1] of Python, "" when i is out of range.
Char(s, i) == IF i >= 1 /\ i <= Len(s) THEN SubSeq(s, i, i) ELSE ""

\* s[a-1:b] of Python: a slice never fails on an index past the end.
Slice(s, a, b) ==
    LET lo == IF a < 1 THEN 1 ELSE a
        hi == IF b > Len(s) THEN Len(s) ELSE b
    IN IF lo > hi THEN "" ELSE SubSeq(s, lo, hi)

lower_char(c) ==
    IF \E i \in 1..Len(UPPER) : Char(UPPER, i) = c
    THEN Char(LOWER, CHOOSE i \in 1..Len(UPPER) : Char(UPPER, i) = c)
    ELSE c

RECURSIVE lower(_)
lower(s) == IF s = "" THEN "" ELSE lower_char(Head(s)) \o lower(Tail(s))

RECURSIVE lstrip(_)
lstrip(s) == IF s # "" /\ Head(s) \in WS THEN lstrip(Tail(s)) ELSE s

RECURSIVE rstrip(_)
rstrip(s) ==
    IF s # "" /\ Char(s, Len(s)) \in WS THEN rstrip(Slice(s, 1, Len(s) - 1)) ELSE s

strip(s) == rstrip(lstrip(s))

startswith(s, p) == Len(s) >= Len(p) /\ Slice(s, 1, Len(p)) = p
endswith(s, p) == Len(s) >= Len(p) /\ Slice(s, Len(s) - Len(p) + 1, Len(s)) = p

\* s.find(p): the lowest 0-based index where p occurs in s, -1 when it does not.
find(s, p) ==
    LET hits == {i \in 0..(Len(s) - Len(p)) : Slice(s, i + 1, i + Len(p)) = p}
    IN IF hits = {} THEN -1 ELSE Min(hits)

\* p in s
contains(s, p) == find(s, p) # -1

\* s.ljust(n, " ")
RECURSIVE ljust(_, _)
ljust(s, n) == IF Len(s) >= n THEN s ELSE ljust(s \o " ", n)

(***************************************************************************)
(* The regular expressions of strip_wrappers.  Every \s* of the two marker *)
(* patterns is followed by a literal that is not whitespace, so the match  *)
(* is decided by scanning once, forwards for the ^-anchored pattern and    *)
(* backwards for the $-anchored one.                                       *)
(***************************************************************************)
\* The first position >= i of s that holds no whitespace (Len(s)+1 if none).
RECURSIVE SkipWS(_, _)
SkipWS(s, i) == IF Char(s, i) \in WS THEN SkipWS(s, i + 1) ELSE i

\* The last position <= i of s that holds no whitespace (0 if none).
RECURSIVE SkipWSBack(_, _)
SkipWSBack(s, i) == IF Char(s, i) \in WS THEN SkipWSBack(s, i - 1) ELSE i

\* re.sub(r'^\s*<\s*start\s*>\s*', '', t, flags=re.IGNORECASE)
sub_start_marker(t) ==
    LET a == SkipWS(t, 1)
        b == SkipWS(t, a + 1)
        c == SkipWS(t, b + 5)
        e == SkipWS(t, c + 1)
    IN IF Char(t, a) = "<" /\ lower(Slice(t, b, b + 4)) = "start" /\ Char(t, c) = ">"
       THEN Slice(t, e, Len(t))
       ELSE t

\* re.sub(r'\s*<\s*end\s*>\s*$', '', t, flags=re.IGNORECASE)
sub_end_marker(t) ==
    LET d == SkipWSBack(t, Len(t))
        c == SkipWSBack(t, d - 1)
        b == SkipWSBack(t, c - 3)
        a == SkipWSBack(t, b - 1)
    IN IF Char(t, d) = ">" /\ c >= 3 /\ lower(Slice(t, c - 2, c)) = "end"
          /\ Char(t, b) = "<"
       THEN Slice(t, 1, a)
       ELSE t

\* re.sub(r'\s+', ' ', t)
RECURSIVE sub_whitespace(_)
sub_whitespace(t) ==
    IF t = "" THEN ""
    ELSE IF Head(t) \in WS THEN " " \o sub_whitespace(lstrip(t))
    ELSE Head(t) \o sub_whitespace(Tail(t))

\* One layer of surrounding quotes: t[1:-1] when t starts and ends with the
\* same quote character (a text that is a single quote character does both).
strip_quotes(t) ==
    IF (startswith(t, "\"") /\ endswith(t, "\"")) \/ (startswith(t, "'") /\ endswith(t, "'"))
    THEN Slice(t, 2, Len(t) - 1)
    ELSE t

\* strip_wrappers without the .strip() that ends line 56.
strip_wrappers_no_final_strip(text) ==
    sub_whitespace(sub_end_marker(sub_start_marker(strip_quotes(strip(text)))))

strip_wrappers(text) ==
    strip(sub_whitespace(sub_end_marker(sub_start_marker(strip_quotes(strip(text))))))


(***************************************************************************)
(* Bounds of the model.                                                    *)
(***************************************************************************)
MaxPieces == 3        \* pieces concatenated into a text given to strip_wrappers
MaxPacketSize == 12   \* segment sizes 1..MaxPacketSize of the sender-receiver link
MaxMessages == 1      \* messages entered at the sender
MaxSegments == 3      \* datagrams the stand-alone receiver is given
MaxDatagrams == 1     \* datagrams the bridge receives, drawn from BridgeInputs
MaxConcurrent == 2    \* datagrams the bridge receives, drawn from FewInputs
MaxConfigured == 1    \* drive and rotate commands the configured bridge receives

(***************************************************************************)
(* tx_send.py: the sender's main loop.                                     *)
(***************************************************************************)
\* split_packets without the ljust of line 35.
RECURSIVE split_packets_no_pad(_, _)
split_packets_no_pad(full_bytes, size) ==
    IF full_bytes = "" THEN <<>>
    ELSE <<Slice(full_bytes, 1, size)>>
         \o split_packets_no_pad(Slice(full_bytes, size + 1, Len(full_bytes)), size)

\* Lines 31-36: consecutive PACKET_SIZE slices, the short last one padded.
RECURSIVE split_packets(_, _)
split_packets(full_bytes, size) ==
    IF full_bytes = "" THEN <<>>
    ELSE <<ljust(Slice(full_bytes, 1, size), size)>>
         \o split_packets(Slice(full_bytes, size + 1, Len(full_bytes)), size)

\* Line 27.
wrap(msg) == "<START>" \o msg \o "<END>"

\* Messages typed at the sender's prompt.
Messages ==
    {"", "a", "go", "a b", "ab cd", " hi ", "stop", "x<END>y", "vel 1 2", "<START>",
     "Quit"}

\* Lines 23-36: read a line; "quit" in any letter case leaves the loop, any
\* other line is a message, which is wrapped and cut into packets.
tx_input(msg) ==
    /\ tx_pc = "input"
    /\ Len(tx_msgs) < MaxMessages
    /\ user_msg' = msg
    /\ tx_msgs' = Append(tx_msgs, msg)
    /\ IF lower(msg) = "quit"
       THEN /\ tx_pc' = "exited"
            /\ UNCHANGED <<packets, sent_packets>>
       ELSE /\ packets' = split_packets(wrap(msg), PACKET_SIZE)
            /\ sent_packets' = 0
            /\ tx_pc' = "sending"
    /\ UNCHANGED <<PACKET_SIZE, wire>>

\* Lines 40-43: one turn of the send loop.
tx_sendto ==
    /\ tx_pc = "sending"
    /\ sent_packets < Len(packets)
    /\ wire' = Append(wire, packets[sent_packets + 1])
    /\ sent_packets' = sent_packets + 1
    /\ UNCHANGED <<PACKET_SIZE, user_msg, tx_msgs, packets, tx_pc>>

\* Line 45: the count is reported and the loop returns to input().
tx_report ==
    /\ tx_pc = "sending"
    /\ sent_packets = Len(packets)
    /\ tx_pc' = "input"
    /\ UNCHANGED <<PACKET_SIZE, user_msg, tx_msgs, packets, sent_packets, wire>>

(***************************************************************************)
(* rx_relay.py: the receiver's main loop.                                  *)
(***************************************************************************)
\* Line 36: data.decode("utf-8", errors="ignore").strip()
rx_decode(data) == strip(data)

\* rx_after_start without the slice of line 43.
rx_after_start_keep(chunk) == chunk

\* Lines 39-43: the chunk after its first start marker, when it holds one.
rx_after_start(chunk) ==
    IF contains(chunk, "<START>")
    THEN Slice(chunk, find(chunk, "<START>") + Len("<START>") + 1, Len(chunk))
    ELSE chunk

\* Line 40: the buffer a chunk is appended to.
rx_buffer_keep(chunk) == buffer
rx_buffer_reset(chunk) == IF contains(chunk, "<START>") THEN "" ELSE buffer

\* rx_recvfrom without the test of line 45.
rx_recvfrom_no_guard(data) ==
    LET chunk0 == rx_decode(Slice(data, 1, PACKET_SIZE))
        buffer1 == rx_buffer_reset(chunk0)
        inside1 == inside_message \/ contains(chunk0, "<START>")
        chunk == rx_after_start(chunk0)
        ends == contains(chunk, "<END>")
        message == buffer1 \o Slice(chunk, 1, find(chunk, "<END>"))
    IN /\ recv_packets' = recv_packets + 1
       /\ buffer' = IF ends THEN "" ELSE buffer1 \o chunk
       /\ inside_message' = (inside1 /\ ~ends)
       /\ relayed' = IF ends THEN Append(relayed, wrap(message)) ELSE relayed
       /\ rx_log' = Append(rx_log, [data |-> data,
                                    inside |-> inside_message,
                                    relayed |-> Len(relayed')])

\* rx_recvfrom without the reset of line 59.
rx_recvfrom_no_reset(data) ==
    LET chunk0 == rx_decode(Slice(data, 1, PACKET_SIZE))
        buffer1 == rx_buffer_reset(chunk0)
        inside1 == inside_message \/ contains(chunk0, "<START>")
        chunk == rx_after_start(chunk0)
        ends == inside1 /\ contains(chunk, "<END>")
        message == buffer1 \o Slice(chunk, 1, find(chunk, "<END>"))
    IN /\ recv_packets' = recv_packets + 1
       /\ buffer' = IF ~inside1 THEN buffer1
                    ELSE IF ends THEN message
                    ELSE buffer1 \o chunk
       /\ inside_message' = (inside1 /\ ~ends)
       /\ relayed' = IF ends THEN Append(relayed, wrap(message)) ELSE relayed
       /\ rx_log' = Append(rx_log, [data |-> data,
                                    inside |-> inside_message,
                                    relayed |-> Len(relayed')])

\* Lines 32-62: one turn of the loop, for the datagram `data`.
rx_recvfrom(data) ==
    LET chunk0 == rx_decode(Slice(data, 1, PACKET_SIZE))
        buffer1 == rx_buffer_reset(chunk0)
        inside1 == inside_message \/ contains(chunk0, "<START>")
        chunk == rx_after_start(chunk0)
        ends == inside1 /\ contains(chunk, "<END>")
        message == buffer1 \o Slice(chunk, 1, find(chunk, "<END>"))
    IN /\ recv_packets' = recv_packets + 1
       /\ buffer' = IF ~inside1 THEN buffer1
                    ELSE IF ends THEN ""
                    ELSE buffer1 \o chunk
       /\ inside_message' = (inside1 /\ ~ends)
       /\ relayed' = IF ends THEN Append(relayed, wrap(message)) ELSE relayed
       /\ rx_log' = Append(rx_log, [data |-> data,
                                    inside |-> inside_message,
                                    relayed |-> Len(relayed')])

(***************************************************************************)
(* strip_wrappers applied to a text, and again to its own result.          *)
(***************************************************************************)
Pieces == {" ", "\"", "'", "<START>", "< Start\t>", "<END>", "<end >", "stop", "a \n b"}

RECURSIVE TextsUpTo(_)
TextsUpTo(n) ==
    IF n = 0 THEN {""}
    ELSE LET shorter == TextsUpTo(n - 1)
         IN shorter \cup {p \o t : p \in Pieces, t \in shorter}

Texts == TextsUpTo(MaxPieces)

\* text = strip_wrappers(raw), on the text itself or on the latest result.
sanitize ==
    /\ Len(san_hist) < 2
    /\ san_hist' = Append(san_hist,
                          strip_wrappers(IF san_hist = <<>> THEN san_x
                                         ELSE san_hist[Len(san_hist)]))
    /\ UNCHANGED san_x

(***************************************************************************)
(* eth_bridge_move.py: numbers.  A float is an integer count of            *)
(* thousandths; the number tokens of the model carry at most three         *)
(* fraction digits, so float() loses nothing.                              *)
(***************************************************************************)
DIGITS == "0123456789"

IsDigit(c) == c # "" /\ contains(DIGITS, c)

\* \d+
IsDigits(s) == s # "" /\ \A i \in 1..Len(s) : IsDigit(Char(s, i))

digit_value(c) == find(DIGITS, c)

RECURSIVE digits_value(_)
digits_value(s) ==
    IF s = "" THEN 0
    ELSE 10 * digits_value(Slice(s, 1, Len(s) - 1)) + digit_value(Char(s, Len(s)))

\* The token without its sign.
unsigned(tok) == IF Char(tok, 1) \in {"+", "-"} THEN Slice(tok, 2, Len(tok)) ELSE tok

\* A number pattern that lets the fraction digits be absent: \d+(?:\.\d*)?
is_number_loose(tok) ==
    LET u == unsigned(tok)
        dot == find(u, ".")
    IN IF dot = -1 THEN IsDigits(u)
       ELSE IsDigits(Slice(u, 1, dot))
            /\ (dot + 1 = Len(u) \/ IsDigits(Slice(u, dot + 2, Len(u))))

\* [+-]?\d+(?:\.\d+)? matches the whole token.
is_number(tok) ==
    LET u == unsigned(tok)
        dot == find(u, ".")
    IN IF dot = -1 THEN IsDigits(u)
       ELSE IsDigits(Slice(u, 1, dot)) /\ IsDigits(Slice(u, dot + 2, Len(u)))

RECURSIVE rjust0(_, _)
rjust0(s, n) == IF Len(s) >= n THEN s ELSE rjust0("0" \o s, n)

RECURSIVE ljust0(_, _)
ljust0(s, n) == IF Len(s) >= n THEN s ELSE ljust0(s \o "0", n)

\* float(tok), in thousandths.
float(tok) ==
    LET u == unsigned(tok)
        dot == find(u, ".")
        whole == IF dot = -1 THEN u ELSE Slice(u, 1, dot)
        frac == IF dot = -1 THEN "" ELSE Slice(u, dot + 2, Len(u))
        mag == 1000 * digits_value(whole) + digits_value(Slice(ljust0(frac, 3), 1, 3))
    IN IF Char(tok, 1) = "-" THEN 0 - mag ELSE mag

abs(v) == IF v < 0 THEN 0 - v ELSE v

RECURSIVE nat_str(_)
nat_str(n) ==
    IF n < 10 THEN Char(DIGITS, n + 1)
    ELSE nat_str(n \div 10) \o Char(DIGITS, (n % 10) + 1)

\* f'{v:.3f}'
fmt3(v) ==
    (IF v < 0 THEN "-" ELSE "") \o nat_str(abs(v) \div 1000) \o "."
        \o rjust0(nat_str(abs(v) % 1000), 3)

\* clamp without the upper limit: max(lo, val).
\* clamp without max(lo, .).
clamp_no_lower(val, lo, hi) == IF val > hi THEN hi ELSE val

clamp_no_upper(val, lo, hi) == IF lo > val THEN lo ELSE val

\* Line 40, with min and max written out.
clamp(val, lo, hi) ==
    LET low == IF val < hi THEN val ELSE hi
    IN IF lo > low THEN lo ELSE low

\* math.radians(d): thousandths of a degree to thousandths of a radian, with
\* pi = 355/113 and rounding to the nearest thousandth.
radians(d) == (d * 355 + 10170) \div 20340

(***************************************************************************)
(* eth_bridge_move.py: the command grammar.  Each pattern is anchored at   *)
(* both ends and is a sequence of words and number tokens separated by \s+ *)
(* and followed by \s*; no word or number token holds whitespace.  So a    *)
(* text matches iff it starts with no whitespace and its whitespace-       *)
(* separated tokens match one by one; the groups are tokens.               *)
(***************************************************************************)
\* The first whitespace-free run of s (s starts with no whitespace).
RECURSIVE first_token(_)
first_token(s) ==
    IF s = "" \/ Head(s) \in WS THEN "" ELSE Head(s) \o first_token(Tail(s))

RECURSIVE tokens(_)
tokens(s) ==
    LET t == lstrip(s)
        w == first_token(t)
    IN IF t = "" THEN <<>> ELSE <<w>> \o tokens(Slice(t, Len(w) + 1, Len(t)))

anchored(text) == text # "" /\ Head(text) \notin WS

\* Line 154.
match_vel(text) ==
    LET tk == tokens(text)
    IN /\ anchored(text)
       /\ Len(tk) = 3
       /\ lower(tk[1]) \in {"vel", "velocity"}
       /\ is_number(tk[2]) /\ is_number(tk[3])

\* Lines 163-166 (word = "drive") and 177-180 (word = "rotate").
match_motion(text, word, senses) ==
    LET tk == tokens(text)
    IN /\ anchored(text)
       /\ Len(tk) \in {3, 5}
       /\ lower(tk[1]) = word
       /\ lower(tk[2]) \in senses
       /\ is_number(tk[3])
       /\ Len(tk) = 5 => (lower(tk[4]) = "speed" /\ is_number(tk[5]))

match_drive(text) == match_motion(text, "drive", {"forward", "backward"})

match_rotate(text) ==
    match_motion(text, "rotate", {"clockwise", "counterclockwise", "anticlockwise"})

\* Line 148.
is_stop(text) == text \in {"stop", "e-stop", "estop"}

\* Lines 23-36.
COMMAND_HELP ==
    "\nCommands:\n"
    \o "  drive forward <meters> [speed <mps>]\n"
    \o "  drive backward <meters> [speed <mps>]\n"
    \o "  rotate clockwise <degrees> [speed <radps>]\n"
    \o "  rotate counterclockwise <degrees> [speed <radps>]\n"
    \o "  vel <linear_x_mps> <angular_z_radps>\n"
    \o "  stop\n"
    \o "\nExamples:\n"
    \o "  drive forward 0.5 speed 0.25\n"
    \o "  rotate clockwise 90\n"
    \o "  vel 0.2 -0.3\n"

\* Lines 70-71: the declared values of default_drive_speed and
\* default_rot_speed.
DeclaredSpeeds == <<250, 800>>

\* Lines 80-81: the values the two parameters are started with: the declared
\* ones, or overrides above and below the ranges of lines 172 and 188.
ConfiguredSpeeds == {DeclaredSpeeds, <<900, 50>>, <<20, 2000>>}

\* Lines 72-73: the declared values of the parameters.
drive_action_name == "/drive_distance"
rotate_action_name == "/rotate_angle"

(***************************************************************************)
(* eth_bridge_move.py: the effects of one call.  `id` is the number of the *)
(* datagram the call works for (history only); `ready` is what             *)
(* wait_for_server(timeout_sec=0.5) returns.                               *)
(***************************************************************************)
NoEffect == [ev |-> <<>>, goal |-> <<>>]

\* Sender addresses, and those among them sendto cannot reach.
Addrs == {"peer1", "peer2"}
Unreachable == {"peer2"}

\* Lines 263-267: sendto raises on the closed socket and for an address it
\* cannot reach, and the exception is swallowed; `sent` holds the datagram
\* that left, if one did.
_reply(addr, text, id) ==
    [type |-> "reply", cmd |-> id, addr |-> addr, text |-> text,
     sent |-> IF sock_open /\ addr \notin Unreachable THEN <<text \o "\n">> ELSE <<>>]

\* Lines 196-206.
_publish_velocity(vx, wz, id) == [type |-> "publish", cmd |-> id, vx |-> vx, wz |-> wz]

\* Lines 219 and 246: the call of send_goal_async.
send_goal_async(kind, id) == [type |-> "send_goal", cmd |-> id, kind |-> kind]

\* _send_drive_distance without the return of line 212.
_send_drive_distance_no_return(meters, speed, addr, id, ready) ==
    [ev |-> (IF ~ready
             THEN <<_reply(addr, "error: " \o drive_action_name \o " server not ready", id)>>
             ELSE <<>>) \o <<send_goal_async("drive", id)>>,
     goal |-> <<[cmd |-> id, kind |-> "drive", addr |-> addr,
                 distance |-> meters,
                 max_translation_speed |-> speed,
                 state |-> "sent"]>>]

\* Lines 209-220.
_send_drive_distance(meters, speed, addr, id, ready) ==
    IF ~ready
    THEN [NoEffect EXCEPT
            !.ev = <<_reply(addr, "error: " \o drive_action_name \o " server not ready", id)>>]
    ELSE [ev |-> <<send_goal_async("drive", id)>>,
          goal |-> <<[cmd |-> id, kind |-> "drive", addr |-> addr,
                      distance |-> meters,
                      max_translation_speed |-> speed,
                      state |-> "sent"]>>]

\* Lines 236-247.
_send_rotate_angle(radians_, rot_speed, addr, id, ready) ==
    IF ~ready
    THEN [NoEffect EXCEPT
            !.ev = <<_reply(addr, "error: " \o rotate_action_name \o " server not ready", id)>>]
    ELSE [ev |-> <<send_goal_async("rotate", id)>>,
          goal |-> <<[cmd |-> id, kind |-> "rotate", addr |-> addr,
                      angle |-> radians_,
                      max_rotation_speed |-> rot_speed,
                      state |-> "sent"]>>]

\* Line 171 without abs().
drive_meters_signed(direction, meters) ==
    IF direction = "forward" THEN meters ELSE 0 - meters

\* Line 171.
drive_meters(direction, meters) ==
    IF direction = "forward" THEN abs(meters) ELSE 0 - abs(meters)

\* Lines 146-193.
_handle_command(text, addr, id, ready) ==
    LET tk == tokens(text)
    IN IF is_stop(text)
       THEN [NoEffect EXCEPT !.ev = <<_publish_velocity(0, 0, id),
                                      _reply(addr, "ok: stopped", id)>>]
       ELSE IF match_vel(text)
       THEN LET vx == clamp(float(tk[2]), -600, 600)
                wz == clamp(float(tk[3]), -2000, 2000)
            IN [NoEffect EXCEPT
                  !.ev = <<_publish_velocity(vx, wz, id),
                           _reply(addr, "ok: vel " \o fmt3(vx) \o " " \o fmt3(wz), id)>>]
       ELSE IF match_drive(text)
       THEN LET direction == lower(tk[2])
                speed == IF Len(tk) = 5 THEN float(tk[5]) ELSE default_drive_speed
            IN _send_drive_distance(drive_meters(direction, float(tk[3])),
                                    clamp(speed, 50, 500), addr, id, ready)
       ELSE IF match_rotate(text)
       THEN LET sense == lower(tk[2])
                rot_speed == IF Len(tk) = 5 THEN float(tk[5]) ELSE default_rot_speed
                rad == radians(abs(float(tk[3])))
            IN _send_rotate_angle(IF sense = "clockwise" THEN 0 - rad ELSE rad,
                                  clamp(rot_speed, 100, 1500), addr, id, ready)
       ELSE [NoEffect EXCEPT
               !.ev = <<_reply(addr, "error: could not parse command\n" \o COMMAND_HELP, id)>>]

\* Lines 170 and 184 are reached: wait_for_server is called for this text.
calls_wait_for_server(text) ==
    ~is_stop(text) /\ ~match_vel(text) /\ (match_drive(text) \/ match_rotate(text))

(***************************************************************************)
(* eth_bridge_move.py: the datagrams given to the bridge.  Each carries    *)
(* what its sender means by it: the command kind of the grammar, the       *)
(* numbers (in thousandths) and whether a speed is given.                  *)
(***************************************************************************)
Num(s, v) == [s |-> s, v |-> v]

Meaning(raw, kind, sense, n1, n2, given) ==
    [raw |-> raw, kind |-> kind, sense |-> sense, n1 |-> n1, n2 |-> n2, given |-> given]

StopInputs ==
    {Meaning(raw, "stop", "", 0, 0, FALSE) :
        raw \in {"stop", "e-stop", "estop", "STOP", "Stop", "<START>stop<END>"}}

VelInputs ==
    {Meaning(w \o " " \o a.s \o " " \o b.s, "vel", "", a.v, b.v, FALSE) :
        w \in {"vel", "Velocity"},
        a \in {Num("0.2", 200), Num("10", 10000), Num("-10", -10000)},
        b \in {Num("-0.3", -300), Num("+5", 5000)}}
    \cup {Meaning("\"vel 0.2   -0.3\" ", "vel", "", 200, -300, FALSE)}

DriveInputs ==
    {Meaning("drive " \o d \o " " \o a.s, "drive", d, a.v, 0, FALSE) :
        d \in {"forward", "backward"},
        a \in {Num("1.5", 1500), Num("-1.5", -1500), Num("+2", 2000)}}
    \cup {Meaning("Drive Forward 0.5 speed " \o b.s, "drive", "forward", 500, b.v, TRUE) :
            b \in {Num("0.25", 250), Num("0.9", 900), Num("0.01", 10)}}

RotateInputs ==
    {Meaning("rotate " \o d \o " " \o a.s, "rotate", d, a.v, 0, FALSE) :
        d \in {"clockwise", "counterclockwise", "anticlockwise"},
        a \in {Num("90", 90000), Num("-45", -45000)}}
    \cup {Meaning("ROTATE clockwise 90 SPEED " \o b.s, "rotate", "clockwise", 90000, b.v, TRUE) :
            b \in {Num("0.05", 50), Num("1", 1000), Num("3.5", 3500)}}

BadInputs ==
    {Meaning(raw, "bad", "", 0, 0, FALSE) :
        raw \in {"dance now", "vel 1", "vel 1.5x 2", "vel 1. 2", "drive sideways 1",
                 "drive forward 1e3", "rotate clockwise", "stopp"}}

EmptyInputs ==
    {Meaning(raw, "empty", "", 0, 0, FALSE) : raw \in {"", "   ", "<START><END>", "\"\""}}

\* Every datagram of the model.
BridgeInputs ==
    StopInputs \cup VelInputs \cup DriveInputs \cup RotateInputs \cup BadInputs
        \cup EmptyInputs

\* The drive and rotate commands with a speed, and one of each without.
SpeedInputs ==
    {inp \in DriveInputs \cup RotateInputs :
        inp.given \/ inp.raw \in {"drive forward 1.5", "rotate clockwise 90"}}

\* One datagram of each kind, for the runs with several datagrams.
FewInputs ==
    {inp \in BridgeInputs :
        inp.raw \in {"vel 0.2 -0.3", "drive forward 1.5", "rotate clockwise 90",
                     "dance now", ""}}

(***************************************************************************)
(* eth_bridge_move.py: the threads.  _udp_loop runs in its own thread; the *)
(* goal callbacks run in the executor; destroy_node runs in main.          *)
(***************************************************************************)
\* Line 133: the while test.
_udp_loop_head ==
    /\ loop = "head"
    /\ loop' = IF _shutdown THEN "stopped" ELSE "recv"
    /\ UNCHANGED <<_shutdown, sock_open, datagrams, events, goals>>

\* _udp_loop_recv without the test of lines 140-141.
_udp_loop_recv_no_continue(inputs, max) ==
    /\ loop = "recv"
    /\ sock_open
    /\ Len(datagrams) < max
    /\ \E inp \in inputs, addr \in Addrs :
         LET text == strip_wrappers(inp.raw)
             id == Len(datagrams) + 1
         IN \E ready \in (IF calls_wait_for_server(text) THEN BOOLEAN ELSE {TRUE}) :
              LET eff == _handle_command(text, addr, id, ready)
              IN /\ datagrams' = Append(datagrams, [in |-> inp, addr |-> addr,
                                                   text |-> text, ready |-> ready])
                 /\ events' = events \o eff.ev
                 /\ goals' = goals \o eff.goal
    /\ loop' = "head"
    /\ UNCHANGED <<_shutdown, sock_open>>

\* _udp_loop_recv with a _reply that lets the exception of sendto through:
\* it ends the thread's function.
_udp_loop_recv_raises(inputs, max) ==
    /\ loop = "recv"
    /\ sock_open
    /\ Len(datagrams) < max
    /\ \E inp \in inputs, addr \in Addrs :
         LET text == strip_wrappers(inp.raw)
             id == Len(datagrams) + 1
         IN \E ready \in (IF calls_wait_for_server(text) THEN BOOLEAN ELSE {TRUE}) :
              LET eff == IF text = "" THEN NoEffect
                         ELSE _handle_command(text, addr, id, ready)
              IN /\ datagrams' = Append(datagrams, [in |-> inp, addr |-> addr,
                                                   text |-> text, ready |-> ready])
                 /\ events' = events \o eff.ev
                 /\ goals' = goals \o eff.goal
                 /\ loop' = IF \E k \in 1..Len(eff.ev) :
                                  eff.ev[k].type = "reply" /\ eff.ev[k].sent = <<>>
                            THEN "stopped" ELSE "head"
    /\ UNCHANGED <<_shutdown, sock_open>>

\* Lines 135-143: recvfrom returns a datagram, which is sanitized and, unless
\* empty, dispatched.
_udp_loop_recv(inputs, max) ==
    /\ loop = "recv"
    /\ sock_open
    /\ Len(datagrams) < max
    /\ \E inp \in inputs, addr \in Addrs :
         LET text == strip_wrappers(inp.raw)
             id == Len(datagrams) + 1
         IN \E ready \in (IF calls_wait_for_server(text) THEN BOOLEAN ELSE {TRUE}) :
              LET eff == IF text = "" THEN NoEffect
                         ELSE _handle_command(text, addr, id, ready)
              IN /\ datagrams' = Append(datagrams, [in |-> inp, addr |-> addr,
                                                   text |-> text, ready |-> ready])
                 /\ events' = events \o eff.ev
                 /\ goals' = goals \o eff.goal
    /\ loop' = "head"
    /\ UNCHANGED <<_shutdown, sock_open>>

\* Lines 136-137: recvfrom raises OSError on the closed socket.  The socket
\* has no timeout (lines 104-107), and whether close() wakes a recvfrom that
\* is already blocked is left to the platform: the step is possible, and
\* nothing in the code makes it happen.
_udp_loop_oserror ==
    /\ loop = "recv"
    /\ ~sock_open
    /\ loop' = "stopped"
    /\ UNCHANGED <<_shutdown, sock_open, datagrams, events, goals>>

\* goal_sent without the return of lines 226 and 253.
goal_sent_no_return(i, kind, accepted) ==
    /\ goals[i].kind = kind
    /\ goals[i].state = "sent"
    /\ events' = events
                  \o (IF ~accepted
                      THEN <<_reply(goals[i].addr, "error: " \o kind \o " goal rejected",
                                    goals[i].cmd)>>
                      ELSE <<>>)
                  \o <<_reply(goals[i].addr, "ok: " \o kind \o " goal accepted",
                              goals[i].cmd)>>
    /\ goals' = [goals EXCEPT ![i].state = "accepted"]
    /\ UNCHANGED <<_shutdown, sock_open, loop, datagrams>>

\* Lines 222-229 (kind = "drive") and 249-256 (kind = "rotate"): the
\* callback of the send_goal_async future of goal i.
goal_sent(i, kind, accepted) ==
    /\ goals[i].kind = kind
    /\ goals[i].state = "sent"
    /\ IF ~accepted
       THEN /\ events' = Append(events, _reply(goals[i].addr,
                                               "error: " \o kind \o " goal rejected",
                                               goals[i].cmd))
            /\ goals' = [goals EXCEPT ![i].state = "rejected"]
       ELSE /\ events' = Append(events, _reply(goals[i].addr,
                                               "ok: " \o kind \o " goal accepted",
                                               goals[i].cmd))
            /\ goals' = [goals EXCEPT ![i].state = "accepted"]
    /\ UNCHANGED <<_shutdown, sock_open, loop, datagrams>>

_drive_goal_sent(i) == \E accepted \in BOOLEAN : goal_sent(i, "drive", accepted)

_rotate_goal_sent(i) == \E accepted \in BOOLEAN : goal_sent(i, "rotate", accepted)

\* goal_result replying to the sender of the latest datagram instead of the
\* addr bound by partial() at lines 229 and 256.
goal_result_last_addr(i, kind) ==
    /\ goals[i].kind = kind
    /\ goals[i].state = "accepted"
    /\ events' = Append(events, _reply(datagrams[Len(datagrams)].addr,
                                       "ok: " \o kind \o " done", goals[i].cmd))
    /\ goals' = [goals EXCEPT ![i].state = "done"]
    /\ UNCHANGED <<_shutdown, sock_open, loop, datagrams>>

\* Lines 231-233 (kind = "drive") and 258-260 (kind = "rotate"): the
\* callback of the get_result_async future of goal i.
goal_result(i, kind) ==
    /\ goals[i].kind = kind
    /\ goals[i].state = "accepted"
    /\ events' = Append(events, _reply(goals[i].addr, "ok: " \o kind \o " done",
                                       goals[i].cmd))
    /\ goals' = [goals EXCEPT ![i].state = "done"]
    /\ UNCHANGED <<_shutdown, sock_open, loop, datagrams>>

_drive_result(i) == goal_result(i, "drive")

_rotate_result(i) == goal_result(i, "rotate")

\* Lines 270-276.
destroy_node ==
    /\ ~_shutdown
    /\ _shutdown' = TRUE
    /\ sock_open' = FALSE
    /\ UNCHANGED <<loop, datagrams, events, goals>>

(***************************************************************************)
(* Initial states.  Each specification starts one program and leaves the   *)
(* others in their state after construction.                               *)
(***************************************************************************)
TxInit ==
    /\ user_msg = ""
    /\ tx_msgs = <<>>
    /\ packets = <<>>
    /\ sent_packets = 0
    /\ tx_pc = "input"
    /\ wire = <<>>

\* Lines 25-28 of rx_relay.py.
RxInit ==
    /\ buffer = ""
    /\ inside_message = FALSE
    /\ recv_packets = 0
    /\ relayed = <<>>
    /\ rx_log = <<>>

\* Lines 80-81 and 104-120 of eth_bridge_move.py.
BridgeInitWith(speeds) ==
    /\ default_drive_speed = speeds[1]
    /\ default_rot_speed = speeds[2]
    /\ _shutdown = FALSE
    /\ sock_open = TRUE
    /\ loop = "head"
    /\ datagrams = <<>>
    /\ events = <<>>
    /\ goals = <<>>

BridgeInit == BridgeInitWith(DeclaredSpeeds)

SanInit == san_x = "" /\ san_hist = <<>>

(***************************************************************************)
(* SpecFramer: the sender feeds the receiver over a link that keeps the    *)
(* order and loses nothing; both use the same segment size.                *)
(***************************************************************************)
rx_recv_wire ==
    /\ wire # <<>>
    /\ rx_recvfrom(Head(wire))
    /\ wire' = Tail(wire)
    /\ UNCHANGED <<PACKET_SIZE, user_msg, tx_msgs, packets, sent_packets, tx_pc>>

InitFramer ==
    /\ PACKET_SIZE \in 1..MaxPacketSize
    /\ TxInit /\ RxInit /\ BridgeInit /\ SanInit

NextFramer ==
    \/ \E msg \in Messages : tx_input(msg) /\ UNCHANGED <<rxVars, bridgeVars, sanVars>>
    \/ tx_sendto /\ UNCHANGED <<rxVars, bridgeVars, sanVars>>
    \/ tx_report /\ UNCHANGED <<rxVars, bridgeVars, sanVars>>
    \/ rx_recv_wire /\ UNCHANGED <<bridgeVars, sanVars>>

SpecFramer == InitFramer /\ [][NextFramer]_vars

(***************************************************************************)
(* SpecReceiver: the receiver alone, given any datagrams in any order (UDP *)
(* from any peer), with the segment size of the source.                    *)
(***************************************************************************)
RX_PACKET_SIZE == 800

Segments ==
    {"<START>AB", "<START>CD<END>", "AB", " b", "a ", "EF<END>   ", "x<END>y",
     "<START>", "p<START>A<START>B<END>q", "<start>lc<end>", "   ", "<START><END>"}

rx_recv_any ==
    /\ recv_packets < MaxSegments
    /\ \E data \in Segments : rx_recvfrom(data)
    /\ UNCHANGED txVars

InitReceiver ==
    /\ PACKET_SIZE = RX_PACKET_SIZE
    /\ TxInit /\ RxInit /\ BridgeInit /\ SanInit

NextReceiver == rx_recv_any /\ UNCHANGED <<bridgeVars, sanVars>>

SpecReceiver == InitReceiver /\ [][NextReceiver]_vars

(***************************************************************************)
(* SpecSanitizer: strip_wrappers on every text of Texts.                   *)
(***************************************************************************)
InitSanitizer ==
    /\ PACKET_SIZE = RX_PACKET_SIZE
    /\ TxInit /\ RxInit /\ BridgeInit
    /\ san_x \in Texts
    /\ san_hist = <<>>

NextSanitizer == sanitize /\ UNCHANGED <<txVars, rxVars, bridgeVars>>

SpecSanitizer == InitSanitizer /\ [][NextSanitizer]_vars

(***************************************************************************)
(* Spec: the bridge, given any one datagram of BridgeInputs.               *)
(* SpecConcurrent: the bridge, given several datagrams of FewInputs.       *)
(* SpecConfigured: the bridge, started with any speeds of ConfiguredSpeeds *)
(* and given a drive or rotate command.  The other two start with the      *)
(* declared speeds.                                                        *)
(***************************************************************************)
Init ==
    /\ PACKET_SIZE = RX_PACKET_SIZE
    /\ TxInit /\ RxInit /\ BridgeInit /\ SanInit

InitConfigured ==
    /\ PACKET_SIZE = RX_PACKET_SIZE
    /\ TxInit /\ RxInit /\ SanInit
    /\ \E speeds \in ConfiguredSpeeds : BridgeInitWith(speeds)

\* The steps of the bridge other than the reception of a datagram.
Threads ==
    \/ _udp_loop_head /\ UNCHANGED <<txVars, rxVars, sanVars, paramVars>>
    \/ _udp_loop_oserror /\ UNCHANGED <<txVars, rxVars, sanVars, paramVars>>
    \/ \E i \in 1..Len(goals) : _drive_goal_sent(i) /\ UNCHANGED <<txVars, rxVars, sanVars, paramVars>>
    \/ \E i \in 1..Len(goals) : _drive_result(i) /\ UNCHANGED <<txVars, rxVars, sanVars, paramVars>>
    \/ \E i \in 1..Len(goals) : _rotate_goal_sent(i) /\ UNCHANGED <<txVars, rxVars, sanVars, paramVars>>
    \/ \E i \in 1..Len(goals) : _rotate_result(i) /\ UNCHANGED <<txVars, rxVars, sanVars, paramVars>>
    \/ destroy_node /\ UNCHANGED <<txVars, rxVars, sanVars, paramVars>>

Next ==
    \/ _udp_loop_recv(BridgeInputs, MaxDatagrams) /\ UNCHANGED <<txVars, rxVars, sanVars, paramVars>>
    \/ Threads

Spec == Init /\ [][Next]_vars

NextConcurrent ==
    \/ _udp_loop_recv(FewInputs, MaxConcurrent) /\ UNCHANGED <<txVars, rxVars, sanVars, paramVars>>
    \/ Threads

SpecConcurrent == Init /\ [][NextConcurrent]_vars

NextConfigured ==
    \/ _udp_loop_recv(SpeedInputs, MaxConfigured)
          /\ UNCHANGED <<txVars, rxVars, sanVars, paramVars>>
    \/ Threads

SpecConfigured == InitConfigured /\ [][NextConfigured]_vars

\* SpecShutdown: SpecConcurrent with the fairness of the listener thread: a
\* thread that stands at the while test of line 133 takes the test.
SpecShutdown ==
    /\ Init
    /\ [][NextConcurrent]_vars
    /\ WF_vars(_udp_loop_head /\ UNCHANGED <<txVars, rxVars, sanVars, paramVars>>)

(***************************************************************************)
(* Claims about the framing protocol (tx_send.py, rx_relay.py).            *)
(***************************************************************************)
\* The message of a relayed datagram: the text between its two markers.
Unwrap(d) == Slice(d, Len("<START>") + 1, Len(d) - Len("<END>"))

\* s without its whitespace characters.
RECURSIVE NoWS(_)
NoWS(s) ==
    IF s = "" THEN ""
    ELSE IF Head(s) \in WS THEN NoWS(Tail(s))
    ELSE Head(s) \o NoWS(Tail(s))

\* The datagrams the receiver was given, oldest first.
RxData == [k \in 1..Len(rx_log) |-> rx_log[k].data]

\* The number of messages relayed before step k of the receiver.
RelayedBefore(k) == IF k = 1 THEN 0 ELSE rx_log[k - 1].relayed

\* Step k of the receiver emitted a message.
EmittedAt(k) == rx_log[k].relayed > RelayedBefore(k)

\* C1: the sender's segments of one message M, cut at any size S and fed in
\* order and without loss into a receiver that starts Idle, make the
\* receiver emit exactly one message, and that message is M.
C1_RoundTrip ==
    (Len(tx_msgs) = 1 /\ tx_pc = "input" /\ wire = <<>>)
        => relayed = <<"<START>" \o tx_msgs[1] \o "<END>">>

\* The message "a b" cut at size 8 arrives as "ab": the space that ends
\* the first segment's content is stripped with the padding.
C1_Witness ==
    /\ PACKET_SIZE = 8
    /\ tx_msgs = <<"a b">>
    /\ tx_pc = "input" /\ wire = <<>>
    /\ relayed = <<"<START>ab<END>">>

\* The content received from datagram j on, starting after the first start
\* marker of datagram j, up to and including datagram m.
RECURSIVE ReceivedSince(_, _)
ReceivedSince(j, m) ==
    IF j > m THEN ""
    ELSE ReceivedSince(j, m - 1)
         \o (IF m = j
             THEN Slice(rx_log[j].data,
                        find(rx_log[j].data, "<START>") + Len("<START>") + 1,
                        Len(rx_log[j].data))
             ELSE rx_log[m].data)

\* The datagrams up to m that hold a start marker.
StartsUpTo(m) == {j \in 1..m : contains(rx_log[j].data, "<START>")}

Max(S) == CHOOSE x \in S : \A y \in S : x >= y

\* C5: last writer wins.  When a datagram with a start marker arrives while
\* the receiver is Collecting, that step emits at most one message, and the
\* message emitted then or later, while this is the latest start marker,
\* consists only of content received after the marker: nothing of the
\* discarded buffer is in it.  "<START>AB" then "<START>CD<END>" emits
\* exactly one message, "CD".
C5_LastWriterWins ==
    /\ \A m \in 1..Len(rx_log) :
          (EmittedAt(m) /\ StartsUpTo(m) # {} /\ rx_log[Max(StartsUpTo(m))].inside)
             => /\ rx_log[m].relayed = RelayedBefore(m) + 1
                /\ LET msg == NoWS(Unwrap(relayed[rx_log[m].relayed]))
                       got == NoWS(ReceivedSince(Max(StartsUpTo(m)), m))
                   IN startswith(got, msg)
    /\ \A j \in 1..Len(rx_log) :
          (rx_log[j].inside /\ contains(rx_log[j].data, "<START>") /\ j = Len(rx_log)
             /\ ~EmittedAt(j))
             => NoWS(buffer) = NoWS(ReceivedSince(j, j))
    /\ RxData = <<"<START>AB", "<START>CD<END>">> => relayed = <<"<START>CD<END>">>

\* "<START>AB" then "<START>CD<END>" were received and "CD" was relayed.
C5_Witness ==
    /\ RxData = <<"<START>AB", "<START>CD<END>">>
    /\ rx_log[2].inside
    /\ relayed = <<"<START>CD<END>">>

\* data without the pad bytes (ASCII spaces) that end it.
RECURSIVE RemovePad(_)
RemovePad(data) ==
    IF data # "" /\ Char(data, Len(data)) = " "
    THEN RemovePad(Slice(data, 1, Len(data) - 1))
    ELSE data

\* C10: the receiver strips only trailing pad bytes.  A segment without
\* markers that arrives while Collecting is appended to the buffer with
\* everything but its trailing pad bytes, leading whitespace included.
C10_OnlyPadStripped ==
    [][ (recv_packets' = recv_packets + 1 /\ inside_message
            /\ ~contains(rx_log'[Len(rx_log')].data, "<START>")
            /\ ~contains(rx_log'[Len(rx_log')].data, "<END>"))
          => buffer' = buffer \o RemovePad(rx_log'[Len(rx_log')].data) ]_vars

\* "AB", " b" and "EF" arrive as "ABbEF": the space that starts the second
\* segment is lost.
C10_Witness ==
    /\ RxData = <<"<START>AB", " b", "EF<END>   ">>
    /\ relayed = <<"<START>ABbEF<END>">>

(***************************************************************************)
(* Claims about strip_wrappers.                                            *)
(***************************************************************************)
\* C6 as stated: strip_wrappers(strip_wrappers(x)) = strip_wrappers(x) for
\* every text x.
C6_Idempotent == Len(san_hist) = 2 => san_hist[2] = san_hist[1]

\* A result that still carries a wrapper: a pair of quotes around it, a start
\* marker at its beginning or an end marker at its end (a result holds single
\* spaces only, so a marker has at most one space on each side of its word).
StillWrapped(r) ==
    \/ Len(r) >= 1 /\ Char(r, 1) \in {"\"", "'"} /\ Char(r, Len(r)) = Char(r, 1)
    \/ \E mk \in {"<start>", "< start>", "<start >", "< start >"} : startswith(lower(r), mk)
    \/ \E mk \in {"<end>", "< end>", "<end >", "< end >"} : endswith(lower(r), mk)

\* C6, amended: strip_wrappers(strip_wrappers(x)) = strip_wrappers(x) for
\* every text x whose result strip_wrappers(x) carries no further wrapper.
C6_IdempotentOnceUnwrapped ==
    (Len(san_hist) = 2 /\ ~StillWrapped(san_hist[1])) => san_hist[2] = san_hist[1]

\* A wrapped command was sanitized twice and the second pass changed nothing.
C6_Witness ==
    /\ san_x = "<START>stop<END>"
    /\ san_hist = <<"stop", "stop">>

(***************************************************************************)
(* Claims about the bridge (eth_bridge_move.py).                           *)
(***************************************************************************)
\* The calls made for datagram id, in order.
EventsOf(id) == SelectSeq(events, LAMBDA e : e.cmd = id)

\* The texts of the replies made for datagram id, in order.
ReplyTexts(id) ==
    LET r == SelectSeq(events, LAMBDA e : e.cmd = id /\ e.type = "reply")
    IN [k \in 1..Len(r) |-> r[k].text]

\* The goals submitted for datagram id.
GoalsOf(id) == {i \in 1..Len(goals) : goals[i].cmd = id}

IsPrefix(a, b) == Len(a) <= Len(b) /\ a = SubSeq(b, 1, Len(a))

\* e is a reply with this text to the sender of datagram id.
IsReplyTo(e, id, text) ==
    e.type = "reply" /\ e.addr = datagrams[id].addr /\ e.text = text

\* C2: the replies made for a submitted goal are a prefix of "rejected", or
\* of "accepted" then "done".
C2_ReplyProtocol ==
    \A i \in 1..Len(goals) :
        LET r == ReplyTexts(goals[i].cmd)
        IN IF goals[i].kind = "drive"
           THEN \/ IsPrefix(r, <<"error: drive goal rejected">>)
                \/ IsPrefix(r, <<"ok: drive goal accepted", "ok: drive done">>)
           ELSE \/ IsPrefix(r, <<"error: rotate goal rejected">>)
                \/ IsPrefix(r, <<"ok: rotate goal accepted", "ok: rotate done">>)

\* Two goals are outstanding together; one was rejected, the other ran to "done".
C2_Witness ==
    /\ Len(goals) = 2
    /\ ReplyTexts(goals[1].cmd) = <<"error: drive goal rejected">>
    /\ ReplyTexts(goals[2].cmd) = <<"ok: rotate goal accepted", "ok: rotate done">>

\* clamp(n, lo, hi) as the grammar states it.
Clamped(n, lo, hi) == IF n < lo THEN lo ELSE IF n > hi THEN hi ELSE n

\* A clamped velocity with three decimal places.
Shown(v) ==
    CASE v = 200 -> "0.200"
      [] v = 600 -> "0.600"
      [] v = -600 -> "-0.600"
      [] v = -300 -> "-0.300"
      [] v = 2000 -> "2.000"

\* A datagram spelled as the grammar spells its rule, in lower case.
LowerCase(id) == datagrams[id].in.raw = lower(datagrams[id].in.raw)

\* C3: a vel command makes one publish of the clamped pair and then one
\* reply "ok: vel <vx> <wz>" with the same pair; a stop command makes one
\* publish of (0, 0) and then one reply "ok: stopped"; no goal is submitted.
C3_SynchronousCommands ==
    \A id \in 1..Len(datagrams) :
        LET d == datagrams[id]
            ev == EventsOf(id)
            vx == Clamped(d.in.n1, -600, 600)
            wz == Clamped(d.in.n2, -2000, 2000)
        IN /\ d.in.kind = "vel"
                => /\ Len(ev) = 2
                   /\ ev[1] = [type |-> "publish", cmd |-> id, vx |-> vx, wz |-> wz]
                   /\ IsReplyTo(ev[2], id, "ok: vel " \o Shown(vx) \o " " \o Shown(wz))
                   /\ GoalsOf(id) = {}
           /\ (d.in.kind = "stop" /\ LowerCase(id))
                => /\ Len(ev) = 2
                   /\ ev[1] = [type |-> "publish", cmd |-> id, vx |-> 0, wz |-> 0]
                   /\ IsReplyTo(ev[2], id, "ok: stopped")
                   /\ GoalsOf(id) = {}

\* "vel 10 +5" was published as (0.6, 2.0).
C3_Witness ==
    /\ Len(datagrams) = 1
    /\ datagrams[1].in.raw = "vel 10 +5"
    /\ Len(events) = 2
    /\ events[1].type = "publish" /\ events[1].vx = 600 /\ events[1].wz = 2000
    /\ events[2].text = "ok: vel 0.600 2.000"

\* C4: a command that matches no rule gets one reply, the parse error with
\* the help text, and nothing else happens.
C4_ParseError ==
    \A id \in 1..Len(datagrams) :
        datagrams[id].in.kind = "bad"
            => /\ Len(EventsOf(id)) = 1
               /\ IsReplyTo(EventsOf(id)[1], id,
                            "error: could not parse command\n" \o COMMAND_HELP)
               /\ GoalsOf(id) = {}

\* "vel 1. 2" was answered with the parse error.
C4_Witness ==
    /\ Len(datagrams) = 1
    /\ datagrams[1].in.raw = "vel 1. 2"
    /\ Len(events) = 1
    /\ events[1].type = "reply"
    /\ startswith(events[1].text, "error: could not parse command\n\nCommands:\n")

\* The drive command of datagram id was submitted as a goal.
DriveSubmitted(id) ==
    datagrams[id].in.kind = "drive" /\ datagrams[id].ready

\* C7 as stated: the distance of the goal is +num for forward and -num for
\* backward, for every number token.
C7_DriveSign ==
    \A id \in 1..Len(datagrams) :
        DriveSubmitted(id)
            => \E i \in GoalsOf(id) :
                  goals[i].distance = IF datagrams[id].in.sense = "forward"
                                      THEN datagrams[id].in.n1
                                      ELSE 0 - datagrams[id].in.n1

\* The magnitude of a number.
Magnitude(n) == IF n < 0 THEN 0 - n ELSE n

\* C7, amended: the distance of the goal is +|num| for forward and -|num| for
\* backward: the direction word alone decides the sign, and the distance is
\* +num or -num for every token without a minus sign.
C7_DriveSignOfMagnitude ==
    \A id \in 1..Len(datagrams) :
        DriveSubmitted(id)
            => /\ Cardinality(GoalsOf(id)) = 1
               /\ \A i \in GoalsOf(id) :
                     /\ goals[i].kind = "drive"
                     /\ goals[i].distance = IF datagrams[id].in.sense = "forward"
                                            THEN Magnitude(datagrams[id].in.n1)
                                            ELSE 0 - Magnitude(datagrams[id].in.n1)

\* "drive forward -1.5" was submitted with distance +1.5.
C7_Witness ==
    /\ Len(datagrams) = 1
    /\ datagrams[1].in.raw = "drive forward -1.5"
    /\ Len(goals) = 1
    /\ goals[1].distance = 1500

\* The motion command of datagram id found its action server not ready.
NotReady(id) ==
    datagrams[id].in.kind \in {"drive", "rotate"} /\ ~datagrams[id].ready

\* C8: a drive or rotate command whose action server is not ready gets one
\* reply, "error: <action-name> server not ready", no goal is submitted and
\* no other reply is made for it, then or later.
C8_NotReady ==
    \A id \in 1..Len(datagrams) :
        NotReady(id)
            => /\ Len(EventsOf(id)) = 1
               /\ IsReplyTo(EventsOf(id)[1], id,
                            IF datagrams[id].in.kind = "drive"
                            THEN "error: /drive_distance server not ready"
                            ELSE "error: /rotate_angle server not ready")
               /\ GoalsOf(id) = {}

\* A drive command found the server not ready, and a later goal ran to "done".
C8_Witness ==
    /\ Len(datagrams) = 2
    /\ datagrams[1].in.kind = "drive" /\ ~datagrams[1].ready
    /\ ReplyTexts(1) = <<"error: /drive_distance server not ready">>
    /\ Len(goals) = 1 /\ goals[1].cmd = 2 /\ goals[1].state = "done"

\* C9: every letter-case variant of a command is dispatched as the command:
\* stop publishes (0, 0) and replies "ok: stopped"; vel publishes; drive and
\* rotate reach their action client.
C9_CaseInsensitive ==
    \A id \in 1..Len(datagrams) :
        LET d == datagrams[id]
            ev == EventsOf(id)
        IN /\ d.in.kind = "stop"
                => /\ Len(ev) = 2
                   /\ ev[1] = [type |-> "publish", cmd |-> id, vx |-> 0, wz |-> 0]
                   /\ IsReplyTo(ev[2], id, "ok: stopped")
           /\ d.in.kind = "vel" => (Len(ev) = 2 /\ ev[1].type = "publish")
           /\ (d.in.kind \in {"drive", "rotate"} /\ d.ready)
                => (Len(ev) = 1 /\ ev[1].type = "send_goal" /\ ev[1].kind = d.in.kind)

\* "STOP" was answered with the parse error and nothing was published.
C9_Witness ==
    /\ Len(datagrams) = 1
    /\ datagrams[1].in.raw = "STOP"
    /\ Len(events) = 1
    /\ events[1].type = "reply"
    /\ startswith(events[1].text, "error: could not parse command")


(***************************************************************************)
(* Further claims about the receiver (rx_relay.py).                        *)
(***************************************************************************)
\* The receiver is Collecting after step k.
InsideAfter(k) == IF k < Len(rx_log) THEN rx_log[k + 1].inside ELSE inside_message

\* C11: on receive the markers are recognised in any letter case.  A
\* segment that holds a start marker in any case opens a message: after
\* the step the receiver is Collecting or has emitted the message.  A
\* segment that holds an end marker in any case, and no start marker,
\* closes the message the receiver is Collecting.
C11_MarkersAnyCase ==
    \A k \in 1..Len(rx_log) :
        LET d == lower(rx_log[k].data)
        IN /\ contains(d, "<start>") => (InsideAfter(k) \/ EmittedAt(k))
           /\ (rx_log[k].inside /\ ~contains(d, "<start>") /\ contains(d, "<end>"))
                 => EmittedAt(k)

\* The segment "<start>lc<end>" leaves the receiver Idle and relays nothing.
C11_Witness ==
    /\ RxData = <<"<start>lc<end>">>
    /\ ~inside_message
    /\ relayed = <<>>

\* The positions of d where a start marker begins, and where an end
\* marker begins after the first start marker.
StartsAt(d) == {i \in 1..Len(d) : Slice(d, i, i + 6) = "<START>"}
EndsAfterStart(d) ==
    {j \in 1..Len(d) : Slice(d, j, j + 4) = "<END>" /\ j >= Min(StartsAt(d)) + 7}

\* d holds a start marker followed by an end marker.
IsFramed(d) == StartsAt(d) # {} /\ EndsAfterStart(d) # {}

\* The text of d between its first start marker and the first end marker
\* after it.
Framed(d) == Slice(d, Min(StartsAt(d)) + 7, Min(EndsAfterStart(d)) - 1)

\* C15: a segment with a start marker followed by an end marker completes
\* a message in one step, from Idle and from Collecting: exactly one
\* message is emitted, it is the text between the first start marker and
\* the first end marker after it, and the receiver is Idle with an empty
\* buffer afterwards.
C15_OneStepMessage ==
    \A k \in 1..Len(rx_log) :
        IsFramed(rx_log[k].data)
          => /\ rx_log[k].relayed = RelayedBefore(k) + 1
             /\ relayed[rx_log[k].relayed] =
                   "<START>" \o Framed(rx_log[k].data) \o "<END>"
             /\ ~InsideAfter(k)
             /\ k = Len(rx_log) => buffer = ""

\* "p<START>A<START>B<END>q" arrived while Collecting "AB" and "<START><END>"
\* arrived while Idle: "A<START>B" and the empty message were relayed.
C15_Witness ==
    /\ RxData = <<"<START>AB", "p<START>A<START>B<END>q", "<START><END>">>
    /\ rx_log[2].inside /\ ~rx_log[3].inside
    /\ relayed = <<"<START>A<START>B<END>", "<START><END>">>
    /\ ~inside_message

\* C16: while Idle, a segment without a start marker is ignored, even when
\* it holds an end marker: buffer and state stay as they are and nothing
\* is relayed.
C16_IdleIgnores ==
    [][ (recv_packets' = recv_packets + 1 /\ ~inside_message
            /\ ~contains(rx_log'[Len(rx_log')].data, "<START>"))
          => (buffer' = buffer /\ inside_message' = inside_message
                /\ relayed' = relayed) ]_vars

\* "x<END>y" and "AB" arrived while Idle and nothing happened.
C16_Witness ==
    /\ RxData = <<"x<END>y", "AB">>
    /\ ~rx_log[1].inside /\ ~rx_log[2].inside
    /\ ~inside_message /\ buffer = "" /\ relayed = <<>>

\* C20: whenever the receiver is Idle its buffer is empty; a message is
\* relayed only by a step that finds an end marker while Collecting (the
\* receiver was Collecting or the segment's start marker made it so), that
\* step relays exactly one datagram and leaves the receiver Idle, and
\* every relayed datagram has the form <START>message<END>.
C20_ReceiverInvariant ==
    /\ ~inside_message => buffer = ""
    /\ \A k \in 1..Len(rx_log) :
          EmittedAt(k)
            => /\ rx_log[k].relayed = RelayedBefore(k) + 1
               /\ contains(rx_log[k].data, "<END>")
               /\ rx_log[k].inside \/ contains(rx_log[k].data, "<START>")
               /\ ~InsideAfter(k)
    /\ Len(rx_log) > 0 => Len(relayed) = rx_log[Len(rx_log)].relayed
    /\ \A n \in 1..Len(relayed) :
          /\ Len(relayed[n]) >= Len("<START>") + Len("<END>")
          /\ startswith(relayed[n], "<START>")
          /\ endswith(relayed[n], "<END>")

\* "AB" and "EF" were collected over two segments and relayed as one
\* datagram; the receiver is Idle with an empty buffer.
C20_Witness ==
    /\ RxData = <<"<START>AB", "EF<END>   ">>
    /\ relayed = <<"<START>ABEF<END>">>
    /\ ~inside_message /\ buffer = ""


(***************************************************************************)
(* Further claims about the sender (tx_send.py).                           *)
(***************************************************************************)
\* Every datagram the sender handed to sendto, oldest first: the link of
\* SpecFramer loses nothing, so these are the received and the waiting ones.
SentSoFar == RxData \o wire

\* The encoded wrapped message the sender is sending or has sent last.
FullBytes == "<START>" \o user_msg \o "<END>"

\* n spaces.
RECURSIVE Spaces(_)
Spaces(n) == IF n <= 0 THEN "" ELSE " " \o Spaces(n - 1)

\* ceil(a / b)
CeilDiv(a, b) == (a + b - 1) \div b

\* C17: for a message M and a segment size S, every segment is exactly S
\* bytes long; the segments are handed to sendto in order; their number is
\* ceil(len(<START>M<END>) / S), which is the count reported once all are
\* sent; every segment but the last is a slice of the wrapped message, and
\* the last is the rest of it followed by fewer than S spaces.
C17_Segmentation ==
    tx_pc \in {"sending", "input"} /\ tx_msgs # <<>>
      => LET n == Len(packets)
             L == Len(FullBytes)
             S == PACKET_SIZE
         IN /\ n = CeilDiv(L, S)
            /\ \A i \in 1..n : Len(packets[i]) = S
            /\ \A i \in 1..(n - 1) : packets[i] = SubSeq(FullBytes, (i - 1) * S + 1, i * S)
            /\ packets[n] = SubSeq(FullBytes, (n - 1) * S + 1, L) \o Spaces(n * S - L)
            /\ n * S - L < S
            /\ sent_packets <= n
            /\ Len(SentSoFar) >= sent_packets
            /\ SubSeq(SentSoFar, Len(SentSoFar) - sent_packets + 1, Len(SentSoFar))
                  = SubSeq(packets, 1, sent_packets)
            /\ tx_pc = "input" => sent_packets = n

\* "go" cut at size 5 left in three segments, the last one padded by one
\* space, and the count 3 was reported.
C17_Witness ==
    /\ PACKET_SIZE = 5
    /\ tx_msgs = <<"go">>
    /\ tx_pc = "input"
    /\ sent_packets = 3
    /\ SentSoFar = <<"<STAR", "T>go<", "END> ">>


(***************************************************************************)
(* Further claims about the bridge (eth_bridge_move.py).                   *)
(***************************************************************************)
\* C18: the speed of every submitted drive goal lies in [0.05, 0.5] and
\* that of every submitted rotate goal in [0.1, 1.5].  A speed given in the
\* command is passed through unchanged when it lies in the range and moved
\* to the nearer end of the range otherwise; without one, the configured
\* default is used, clamped in the same way.
C18_SpeedBounds ==
    \A i \in 1..Len(goals) :
        LET in == datagrams[goals[i].cmd].in
        IN /\ goals[i].kind = "drive"
                => LET speed == goals[i].max_translation_speed
                   IN /\ 50 <= speed /\ speed <= 500
                      /\ (in.given /\ 50 <= in.n2 /\ in.n2 <= 500) => speed = in.n2
                      /\ in.given => speed = Clamped(in.n2, 50, 500)
                      /\ ~in.given => speed = Clamped(default_drive_speed, 50, 500)
           /\ goals[i].kind = "rotate"
                => LET speed == goals[i].max_rotation_speed
                   IN /\ 100 <= speed /\ speed <= 1500
                      /\ (in.given /\ 100 <= in.n2 /\ in.n2 <= 1500) => speed = in.n2
                      /\ in.given => speed = Clamped(in.n2, 100, 1500)
                      /\ ~in.given => speed = Clamped(default_rot_speed, 100, 1500)

\* With the default rotation speed configured as 0.05, below the range,
\* "rotate clockwise 90" was submitted with the speed 0.1.
C18_Witness ==
    /\ default_rot_speed = 50
    /\ Len(datagrams) = 1
    /\ datagrams[1].in.raw = "rotate clockwise 90"
    /\ Len(goals) = 1
    /\ goals[1].max_rotation_speed = 100

\* C19: a datagram whose sanitized text is empty is dropped silently: its
\* reception makes no reply, no publish and no goal, and takes the loop
\* back to its while test.
C19_EmptyDropped ==
    [][ (Len(datagrams') = Len(datagrams) + 1
            /\ datagrams'[Len(datagrams')].in.kind = "empty")
          => (events' = events /\ goals' = goals /\ loop' = "head") ]_vars

\* The datagram "<START><END>" was received and nothing was done for it.
C19_Witness ==
    /\ Len(datagrams) = 1
    /\ datagrams[1].in.raw = "<START><END>"
    /\ datagrams[1].text = ""
    /\ events = <<>> /\ goals = <<>>
    /\ loop = "head"

\* The positions in events of the replies with this text made for datagram id.
ReplyAt(id, text) ==
    {k \in 1..Len(events) :
        events[k].type = "reply" /\ events[k].cmd = id /\ events[k].text = text}

\* C12: every reply, made inline by the reception loop or later by a goal
\* callback, in whatever order the callbacks of the outstanding goals run
\* and whatever datagrams arrive in between, is addressed to the sender of
\* the datagram that caused it; and what leaves the socket is that reply.
C12_ReplyRouting ==
    \A k \in 1..Len(events) :
        events[k].type = "reply"
            => /\ events[k].cmd \in 1..Len(datagrams)
               /\ events[k].addr = datagrams[events[k].cmd].addr
               /\ events[k].sent \in {<<>>, <<events[k].text \o "\n">>}

\* Two goals of different senders were outstanding together, and the second
\* sender's goal was done before the first sender's goal was accepted: each
\* reply went to its own sender.
C12_Witness ==
    /\ Len(goals) = 2
    /\ goals[1].cmd = 1 /\ goals[2].cmd = 2
    /\ datagrams[1].addr = "peer1" /\ datagrams[2].addr = "peer2"
    /\ goals[1].state = "done" /\ goals[2].state = "done"
    /\ \E a \in ReplyAt(1, "ok: drive goal accepted"), b \in ReplyAt(2, "ok: rotate done") :
          /\ b < a
          /\ events[a].addr = "peer1"
          /\ events[b].addr = "peer2"

\* What happened for datagram id is local to it: a parse error, an empty
\* command, a server not ready, a rejected goal or a reply that did not
\* leave.
LocalFailure(id) ==
    \/ datagrams[id].in.kind \in {"bad", "empty"}
    \/ NotReady(id)
    \/ \E i \in GoalsOf(id) : goals[i].state = "rejected"
    \/ \E k \in 1..Len(events) :
          events[k].type = "reply" /\ events[k].cmd = id /\ events[k].sent = <<>>

\* Datagram id was dispatched as its command kind requires.
DispatchedNormally(id) ==
    LET d == datagrams[id]
        ev == EventsOf(id)
    IN CASE d.in.kind = "vel" ->
              /\ Len(ev) = 2
              /\ ev[1] = [type |-> "publish", cmd |-> id,
                          vx |-> Clamped(d.in.n1, -600, 600),
                          wz |-> Clamped(d.in.n2, -2000, 2000)]
              /\ ev[2].type = "reply" /\ ev[2].addr = d.addr
         [] d.in.kind \in {"drive", "rotate"} /\ d.ready ->
              /\ Len(ev) >= 1
              /\ ev[1] = [type |-> "send_goal", cmd |-> id, kind |-> d.in.kind]
              /\ Cardinality(GoalsOf(id)) = 1
         [] d.in.kind \in {"drive", "rotate"} /\ ~d.ready ->
              /\ Len(ev) = 1
              /\ ev[1].type = "reply" /\ ev[1].addr = d.addr
              /\ GoalsOf(id) = {}
         [] d.in.kind = "bad" ->
              /\ Len(ev) = 1
              /\ IsReplyTo(ev[1], id, "error: could not parse command\n" \o COMMAND_HELP)
         [] d.in.kind = "empty" -> ev = <<>> /\ GoalsOf(id) = {}

\* C13: the reception loop has stopped only if the shutdown flag is set (a
\* receive fails only on the socket destroy_node closed); no local failure
\* stops it, and the datagram received after a local failure is dispatched
\* as its command kind requires.
C13_FailureIsolation ==
    /\ loop = "stopped" => _shutdown
    /\ \A id \in 2..Len(datagrams) :
          LocalFailure(id - 1) => DispatchedNormally(id)

\* The parse error reply to the unreachable peer2 did not leave; the loop
\* went on, and the velocity command that followed was published and
\* answered.
C13_Witness ==
    /\ ~_shutdown /\ loop = "head"
    /\ Len(datagrams) = 2
    /\ datagrams[1].in.kind = "bad" /\ datagrams[1].addr = "peer2"
    /\ EventsOf(1)[1].sent = <<>>
    /\ datagrams[2].in.kind = "vel" /\ datagrams[2].addr = "peer1"
    /\ EventsOf(2)[2].sent = <<"ok: vel 0.200 -0.300\n">>

\* C14: once destroy_node has set the shutdown flag and closed the socket,
\* the reception loop eventually terminates; once it has terminated no
\* datagram is received; and the goals in flight are not cancelled: no goal
\* is dropped, and a callback that runs after the shutdown makes its reply
\* attempt, which does not leave the closed socket.
C14_CooperativeShutdown ==
    /\ _shutdown ~> (loop = "stopped")
    /\ [][ loop = "stopped" => (loop' = "stopped" /\ datagrams' = datagrams) ]_vars
    /\ [][ _shutdown
            => /\ Len(goals') >= Len(goals)
               /\ \A i \in 1..Len(goals) :
                     goals'[i].state # goals[i].state
                       => /\ Len(events') = Len(events) + 1
                          /\ events'[Len(events')].type = "reply"
                          /\ events'[Len(events')].cmd = goals[i].cmd
                          /\ events'[Len(events')].sent = <<>> ]_vars

\* destroy_node ran while the listener was in recvfrom, which has not
\* returned; a goal in flight was accepted after the shutdown and its reply
\* did not leave.
C14_Witness ==
    /\ _shutdown /\ ~sock_open
    /\ loop = "recv"
    /\ Len(goals) = 1
    /\ datagrams[1].addr = "peer1"
    /\ goals[1].state = "accepted"
    /\ Len(events) = 2
    /\ events[2].text = "ok: drive goal accepted"
    /\ events[2].sent = <<>>

=============================================================================
